---- MODULE Spec2Model ----
(***************************************************************************)
(* Roku: discovery of Aliyun OSS bucket endpoints referenced by target     *)
(* web pages.  Two variants of the program are modelled side by side:      *)
(*   "Roku"  src/Roku.js            runWithRealtimeOutput, shared browser  *)
(*   "Pool"  src/unnamed/part_000   runPool, one browser per render        *)
(* Node.js runs one job at a time: a job runs to its next await on I/O,    *)
(* and continuations of settled promises (microtasks) run before the next  *)
(* I/O completion or timer is delivered.  Every action below is one such   *)
(* run-to-completion segment.                                              *)
(***************************************************************************)
EXTENDS Integers, Sequences, FiniteSets, TLC

VARIABLES
    variant,          \* which program runs: "Roku" or "Pool"
    LEVEL,            \* const LEVEL = parseInt(argv.L || 2, 10)
    argvX,            \* argv.X === 'PUT'
    PIPE_MODE,        \* const PIPE_MODE = argv.pipe (Roku.js only)
    launchPlan,       \* environment: how chromium.launch behaves in this run
    urls,             \* const urls = []  (filled from -u / -l, no dedup)
    mainPc,           \* position of the top-level async function
    pc,               \* position of each target's pipeline (worker call)
    buckets,          \* let buckets = []  of each worker call
    bi,               \* index of the bucket the worker's for-loop is at
    allBuckets,       \* const allBuckets = new Set()
    records,          \* const records = []
    browser,          \* let browser = null   (0 = null, n = handle of launch n)
    browserLaunching, \* let browserLaunching = false
    launches,         \* number of chromium.launch calls made so far
    executing,        \* const executing = new Set()  (runWithRealtimeOutput)
    idx,              \* number of urls the for-of loop has dispatched
    raceWon,          \* the Promise.race main awaits has settled
    i,                \* let i = 0  (runPool)
    spawned,          \* number of pool workers Array(CONCURRENCY).map created
    wpc,              \* position of each pool worker (runPool)
    wcur,             \* const cur = items[i++] of each pool worker (position)
    localRecords,     \* const localRecords = []  of each worker call (Pool)
    urlResults,       \* const urlResults = new Map()  (Pool)
    started,          \* history: how many times worker() was called per position
    nFetch,           \* history: fetchHTTP calls per position
    nRender,          \* history: fetchRendered calls per position
    closes,           \* history: browser.close() calls made by closeBrowser
    nPut,             \* history: putTest calls per position
    ctx,              \* the browsing context of each fetchRendered call (Roku.js)
    stdout,           \* the kinds of lines console.log has written
    files,            \* the export files fs.writeFileSync has written
    putIn,            \* putTest harness: what axios.put does
    putOut            \* putTest harness: what putTest returned

vars == << variant, LEVEL, argvX, PIPE_MODE, launchPlan, urls, mainPc, pc,
           buckets, bi, allBuckets, records, browser, browserLaunching,
           launches, executing, idx, raceWon, i, spawned, wpc, wcur,
           localRecords, urlResults, started, nFetch, nRender, closes,
           nPut, ctx, stdout, files, putIn, putOut >>

(***************************************************************************)
(* Program constants and model bounds                                      *)
(***************************************************************************)
CONCURRENCY == 10

\* longest url list of the small runs (all flags, all worlds)
MaxUrls == 2
\* the long run lists CONCURRENCY + Extra urls, so the pool fills up
Extra == 1
\* HTTP status codes the putTest harness tries
StatusLo == 100
StatusHi == 599

URLS == {"uA", "uB", "uC"}
BUCKETS == {"b1", "b2"}
Workers == 0 .. (CONCURRENCY - 1)
Pos == 1 .. Len(urls)

(***************************************************************************)
(* The environment: what the network and the browser answer.  Every url    *)
(* resolves the same way each time it is asked.                            *)
(***************************************************************************)
\* A response body is abstracted to: is it a string, and which substrings of
\* it match OSS_REGEX, in order of occurrence (repeats included).
EmptyText == [str |-> TRUE, matches |-> << >>]

\* axios.get(url, {timeout: 6000, validateStatus: () => true})
\*   uA: a page naming b1, b2 and b1 again
\*   uB: a transport failure (timeout, DNS, refused)
\*   uC: a JSON document, which axios parses into an object
axiosGet(url) ==
    CASE url = "uA" -> [kind |-> "resp",
                        data |-> [str |-> TRUE, matches |-> <<"b1", "b2", "b1">>]]
      [] url = "uB" -> [kind |-> "error", data |-> EmptyText]
      [] OTHER      -> [kind |-> "resp",
                        data |-> [str |-> FALSE, matches |-> << >>]]

\* page.goto + page.on('request') + page.content of the rendered page:
\* the request urls that match, the matches of the final document, and
\* whether goto ran into its 15 s timeout
pageLoad(url) ==
    CASE url = "uA" -> [requests |-> <<"b2">>, body |-> <<"b1", "b2">>,
                        timeout |-> FALSE]
      [] url = "uB" -> [requests |-> <<"b1">>, body |-> <<"b2">>,
                        timeout |-> TRUE]
      [] OTHER      -> [requests |-> << >>, body |-> << >>, timeout |-> FALSE]

\* axios.put(url, randHex(32), {validateStatus: () => true}) for a bucket
\* found under a target
axiosPut(target, b) ==
    CASE target = "uA" /\ b = "b1" -> [kind |-> "resp", status |-> 201]
      [] target = "uA" /\ b = "b2" -> [kind |-> "error", status |-> 0]
      [] target = "uB" /\ b = "b1" -> [kind |-> "resp", status |-> 403]
      [] OTHER                     -> [kind |-> "resp", status |-> 200]

\* chromium.launch: does the n-th launch of the run succeed
launchSucceeds(n) ==
    CASE launchPlan = "ok"   -> TRUE
      [] launchPlan = "fail" -> FALSE
      [] OTHER               -> n > 1

(***************************************************************************)
(* Pure functions of the program                                           *)
(***************************************************************************)
\* [...new Set(seq)]: first occurrences, in order
Dedup(seq) ==
    LET first == { k \in 1 .. Len(seq) : \A j \in 1 .. (k - 1) : seq[j] # seq[k] }
        nth(n) == CHOOSE k \in first : Cardinality({ j \in first : j <= k }) = n
    IN  [n \in 1 .. Cardinality(first) |-> seq[nth(n)]]

Range(seq) == { seq[k] : k \in 1 .. Len(seq) }

\* async function fetchHTTP(url): res.data || '' , '' on any failure
fetchHTTP(url) ==
    LET res == axiosGet(url)
    IN  IF res.kind = "error" THEN EmptyText
        ELSE IF res.data.str /\ res.data.matches = << >> THEN EmptyText
        ELSE res.data

\* function extractBuckets(text): text.match is no function of a non-string
extractBuckets(text) ==
    IF ~text.str THEN [threw |-> TRUE, list |-> << >>]
    ELSE [threw |-> FALSE, list |-> Dedup(text.matches)]

\* what fetchRendered returns once it holds a page: found collects the
\* request matches during goto; a goto that throws skips page.content
renderFound(url) ==
    LET pg == pageLoad(url)
    IN  IF pg.timeout THEN Dedup(pg.requests)
        ELSE Dedup(pg.requests \o extractBuckets([str |-> TRUE, matches |-> pg.body]).list)

\* mutant of putTest: no upper end of the status range
putTestNoUpperEnd(out) ==
    IF out.kind = "resp" /\ out.status >= 200
    THEN [success |-> TRUE, threw |-> FALSE]
    ELSE [success |-> FALSE, threw |-> FALSE]

\* async function putTest(bucket), given what axios.put does: success for
\* 200 <= res.status < 300; catch {} swallows a failed request
putTest(out) ==
    IF out.kind = "resp" /\ out.status >= 200 /\ out.status < 300
    THEN [success |-> TRUE, threw |-> FALSE]
    ELSE [success |-> FALSE, threw |-> FALSE]

(***************************************************************************)
(* Initial states: the command line and the url list                       *)
(***************************************************************************)
\* url lists of the small runs: every list of 1 .. MaxUrls urls, repeats included
SmallLists == UNION { [1 .. n -> URLS] : n \in 1 .. MaxUrls }
\* the long run: more urls than worker slots; only the first names buckets
LongList == [k \in 1 .. (CONCURRENCY + Extra) |-> IF k = 1 THEN "uA" ELSE "uB"]

\* the state the program's declarations leave behind
InitState ==
    /\ mainPc = IF variant = "Roku" THEN "loop" ELSE "spawn"
    /\ pc = [t \in Pos |-> "pending"]
    /\ buckets = [t \in Pos |-> << >>]
    /\ bi = [t \in Pos |-> 0]
    /\ allBuckets = {}
    /\ records = << >>
    /\ browser = 0
    /\ browserLaunching = FALSE
    /\ launches = 0
    /\ executing = {}
    /\ idx = 0
    /\ raceWon = FALSE
    /\ i = 0
    /\ spawned = 0
    /\ wpc = [w \in Workers |-> "new"]
    /\ wcur = [w \in Workers |-> 0]
    /\ localRecords = [t \in Pos |-> << >>]
    /\ urlResults = [u \in URLS |-> [set |-> FALSE, logs |-> {},
                                       records |-> << >>]]
    /\ started = [t \in Pos |-> 0]
    /\ nFetch = [t \in Pos |-> 0]
    /\ nRender = [t \in Pos |-> 0]
    /\ closes = 0
    /\ nPut = [t \in Pos |-> 0]
    /\ ctx = [t \in Pos |-> "none"]
    /\ stdout = {}
    /\ files = {}

InitRun ==
    /\ variant \in {"Roku", "Pool"}
    /\ \/ /\ urls \in SmallLists
          /\ LEVEL \in {1, 2, 3}
          /\ argvX \in BOOLEAN
          /\ PIPE_MODE \in (IF variant = "Roku" THEN BOOLEAN ELSE {FALSE})
          \* the browser is never asked for at level 1
          /\ launchPlan \in (IF LEVEL = 1 THEN {"ok"}
                             ELSE IF variant = "Roku" THEN {"ok", "fail", "flaky"}
                             ELSE {"ok", "fail"})
       \/ /\ urls = LongList
          /\ LEVEL = 1
          /\ argvX = FALSE
          /\ PIPE_MODE = FALSE
          /\ launchPlan = "ok"
    /\ InitState

Init ==
    /\ InitRun
    /\ putIn = [kind |-> "none", status |-> 0]
    /\ putOut = [called |-> FALSE, success |-> FALSE, threw |-> FALSE]

(***************************************************************************)
(* Scheduling                                                              *)
(***************************************************************************)
\* The process is gone: process.exit, or the crash on an unhandled rejection
Gone == mainPc \in {"crashed", "exit0", "done"}

\* A continuation of an already settled promise is queued (or the top-level
\* function is still in its first synchronous run): it runs before any I/O
\* completion or timer is delivered.
Runnable ==
    \/ mainPc \in {"loop", "spawn", "merge"}
    \/ mainPc = "race" /\ raceWon
    \/ mainPc = "all" /\ executing = {}
    \/ mainPc = "await" /\ \A w \in Workers : wpc[w] = "done"
    \/ \E w \in Workers : wpc[w] = "loop"

\* An I/O completion or timer can be delivered
Idle == ~Runnable /\ ~Gone

(***************************************************************************)
(* Pieces of the worker that several actions run                           *)
(***************************************************************************)
\* what a pipeline step leaves alone besides the pipeline's own state
Frame ==
    UNCHANGED << variant, LEVEL, argvX, PIPE_MODE, launchPlan, urls, idx, i,
                 spawned, wcur, started, nFetch, closes, files, putIn, putOut >>

\* mutant of getBrowser: no if (browser) return browser
getBrowserNoReuse(t) ==
    IF browserLaunching
    THEN /\ pc' = [pc EXCEPT ![t] = "poll"]
         /\ UNCHANGED << browserLaunching, launches >>
    ELSE /\ browserLaunching' = TRUE
         /\ launches' = launches + 1
         /\ pc' = [pc EXCEPT ![t] = "launch"]

\* async function getBrowser() of Roku.js, up to its first wait
getBrowser(t) ==
    IF browser # 0
    THEN /\ pc' = [pc EXCEPT ![t] = "render"]
         /\ UNCHANGED << browserLaunching, launches >>
    ELSE IF browserLaunching
    THEN /\ pc' = [pc EXCEPT ![t] = "poll"]
         /\ UNCHANGED << browserLaunching, launches >>
    ELSE /\ browserLaunching' = TRUE
         /\ launches' = launches + 1
         /\ pc' = [pc EXCEPT ![t] = "launch"]

\* fetchRendered(url) is called: Roku.js asks getBrowser for the shared
\* browser, part_000 launches a browser of its own
CallRender(t) ==
    /\ nRender' = [nRender EXCEPT ![t] = @ + 1]
    /\ IF variant = "Roku"
       THEN getBrowser(t)
       ELSE /\ launches' = launches + 1
            /\ pc' = [pc EXCEPT ![t] = "launch"]
            /\ UNCHANGED browserLaunching

\* worker(target) is called and runs to its first await: the level selection
CallWorker(t) ==
    /\ started' = [started EXCEPT ![t] = @ + 1]
    /\ IF LEVEL = 3
       THEN CallRender(t) /\ UNCHANGED nFetch
       ELSE /\ LEVEL \in {1, 2}
            /\ nFetch' = [nFetch EXCEPT ![t] = @ + 1]
            /\ pc' = [pc EXCEPT ![t] = "fetch"]
            /\ UNCHANGED << browserLaunching, launches, nRender >>

\* the pool worker that runs position t (part_000)
WorkerOf(t) == CHOOSE w \in Workers : wpc[w] = "run" /\ wcur[w] = t

\* mutant of executingDelete: no .catch handler, a rejected worker stays in
\* executing
executingDeleteOnSuccess(set, t, ok) == IF ok THEN set \ {t} ELSE set

\* .then(() => executing.delete(promise)).catch(err => { ...;
\* executing.delete(promise) }): the set without t, however the worker ended
executingDelete(set, t, ok) == set \ {t}

\* worker(target)'s promise settles.  Roku.js: the .then / .catch handler
\* deletes the promise from executing, which settles a pending Promise.race.
\* part_000: the pool worker goes round its while loop, or rejects and with
\* it Promise.all, runPool and the top-level function.
Settle(t, ok) ==
    IF variant = "Roku"
    THEN /\ executing' = executingDelete(executing, t, ok)
         /\ raceWon' = (raceWon \/ mainPc = "race")
         /\ UNCHANGED << wpc, mainPc >>
    ELSE /\ wpc' = [wpc EXCEPT ![WorkerOf(t)] = IF ok THEN "loop" ELSE "rejected"]
         /\ mainPc' = IF ~ok /\ mainPc = "await" THEN "rejected" ELSE mainPc
         /\ UNCHANGED << executing, raceWon >>

NoSettle == UNCHANGED << executing, raceWon, wpc, mainPc >>

\* the worker throws
Reject(t) ==
    /\ pc' = [pc EXCEPT ![t] = "failed"]
    /\ Settle(t, FALSE)

\* mutant of putOn: the PUT test is not tied to the output mode
putOnInPipeMode == argvX

\* is the PUT test on: if (argv.X === 'PUT' && !PIPE_MODE); part_000 has no
\* pipe mode
putOn == argvX /\ ~PIPE_MODE

\* what the loop and the render step leave alone when the bucket loop does
\* not run
LoopFrame ==
    UNCHANGED << bi, allBuckets, records, localRecords, urlResults, nPut >>

\* console.log of a decorative line: Roku.js writes it unless in pipe mode,
\* part_000 keeps its lines in logs until the merge
Say(kinds) == IF variant = "Roku" /\ ~PIPE_MODE THEN kinds ELSE {}

\* the lines the bucket loop writes from the k-th bucket on: console.log(b)
\* in pipe mode, the decorated bucket line otherwise
BucketLines(list, k) ==
    IF variant = "Roku" /\ k <= Len(list)
    THEN {IF PIPE_MODE THEN "url" ELSE "item"}
    ELSE {}

\* const context = await bw.newContext(): fetchRendered of Roku.js opens a
\* context once getBrowser has given it the browser
newContext(t) ==
    ctx' = [ctx EXCEPT ![t] = IF variant = "Roku" /\ pc'[t] = "render"
                              THEN "open" ELSE @]

\* await context.close() is the last statement inside fetchRendered's try:
\* a goto that throws jumps past it to the catch block
contextAfter(timeout) == IF timeout THEN "open" ELSE "closed"

\* mutant of Record: the record names the last url of the list, not the
\* worker's own target (a loop variable shared by the closures)
RecordLastTarget(t, b, ok) ==
    [target |-> urls[Len(urls)], bucket |-> b, putBool |-> ok, pos |-> t]

\* { target, bucket: b, put: putStatus, putBool }; pos is history: the
\* position of the worker call that made the record
Record(t, b, ok) == [target |-> urls[t], bucket |-> b, putBool |-> ok, pos |-> t]

\* mutant of Insert: the set is overwritten with the new buckets (a lost
\* update)
InsertLost(set, new) == new

\* allBuckets.add(b), for each b of new
Insert(set, new) == set \cup new

\* mutant of RealtimeRecords: part_000 pushes to records inside the loop too
RealtimeRecordsAlways == TRUE

\* Roku.js pushes each record to records inside the loop (records.push);
\* part_000 keeps them in localRecords until the pool is done
RealtimeRecords == variant = "Roku"

\* const logs = [] of part_000's worker when it returns: the fallback notice,
\* a line for each bucket and a line for each PUT test
logs(t, list) ==
    (IF LEVEL = 2 /\ nRender[t] = 1 THEN {"smart"} ELSE {})
        \cup (IF list # << >> THEN {"item"} ELSE {})
        \cup (IF list # << >> /\ putOn THEN {"put"} ELSE {})

\* for (const b of buckets) from the k-th bucket on, up to the next await
\* (putTest) or the worker's return.  recs / locs are records and the
\* worker's localRecords as the caller leaves them.
BucketLoop(t, list, k, recs, locs) ==
    IF putOn /\ k <= Len(list)
    THEN /\ allBuckets' = Insert(allBuckets, {list[k]})
         /\ bi' = [bi EXCEPT ![t] = k]
         /\ pc' = [pc EXCEPT ![t] = "put"]
         /\ nPut' = [nPut EXCEPT ![t] = @ + 1]
         /\ records' = recs
         /\ localRecords' = [localRecords EXCEPT ![t] = locs]
         /\ UNCHANGED urlResults
         /\ NoSettle
    ELSE LET rest == SubSeq(list, k, Len(list))
             new  == [j \in 1 .. Len(rest) |-> Record(t, rest[j], FALSE)]
         IN  /\ allBuckets' = Insert(allBuckets, Range(rest))
             /\ bi' = [bi EXCEPT ![t] = 0]
             /\ pc' = [pc EXCEPT ![t] = "done"]
             /\ IF RealtimeRecords
                THEN /\ records' = recs \o new
                     /\ localRecords' = [localRecords EXCEPT ![t] = locs]
                     /\ UNCHANGED urlResults
                ELSE /\ records' = recs
                     /\ localRecords' = [localRecords EXCEPT ![t] = locs \o new]
                     /\ urlResults' = [urlResults EXCEPT ![urls[t]] =
                                          [set |-> TRUE, logs |-> logs(t, list),
                                           records |-> locs \o new]]
             /\ UNCHANGED nPut
             /\ Settle(t, TRUE)

(***************************************************************************)
(* The per-target pipeline: one action per I/O completion                  *)
(***************************************************************************)
\* mutant of Fallback: the fallback is not tied to level 2
FallbackAtAnyLevel(level, list) == list = << >>

\* if (LEVEL === 2) { ...; if (!buckets.length) buckets = await fetchRendered(target) }
Fallback(level, list) == level = 2 /\ list = << >>

\* await fetchHTTP(target) returns; extractBuckets; level 2 falls back to
\* the renderer when nothing was found; otherwise the bucket loop starts
FetchReturn(t) ==
    /\ Idle /\ pc[t] = "fetch"
    /\ LET ex == extractBuckets(fetchHTTP(urls[t]))
       IN  IF ex.threw
           THEN /\ Reject(t)
                /\ LoopFrame
                /\ UNCHANGED << buckets, browserLaunching, launches, nRender,
                                stdout >>
           ELSE IF Fallback(LEVEL, ex.list)
           THEN /\ buckets' = [buckets EXCEPT ![t] = ex.list]
                /\ stdout' = stdout \cup Say({"smart"})
                /\ CallRender(t)
                /\ NoSettle
                /\ LoopFrame
           ELSE /\ buckets' = [buckets EXCEPT ![t] = ex.list]
                /\ stdout' = stdout \cup BucketLines(ex.list, 1)
                /\ BucketLoop(t, ex.list, 1, records, localRecords[t])
                /\ UNCHANGED << browserLaunching, launches, nRender >>
    /\ newContext(t)
    /\ UNCHANGED browser
    /\ Frame

\* mutant of launchingAfter: the flag is reset inside the try block, so a
\* launch that throws leaves it set
launchingAfterInsideTry(ok) == ~ok

\* browserLaunching = false, after the try / catch around chromium.launch
launchingAfter(ok) == FALSE

\* await chromium.launch(...) settles.  Roku.js (getBrowser): the handle is
\* stored on success, the error is logged on failure, browserLaunching is
\* reset and fetchRendered returns [] when there is no browser.
\* part_000 (fetchRendered): the launch is outside any try, a failure throws.
LaunchReturn(t) ==
    /\ Idle /\ pc[t] = "launch"
    /\ IF variant = "Roku"
       THEN /\ browserLaunching' = launchingAfter(launchSucceeds(launches))
            /\ IF launchSucceeds(launches)
               THEN /\ browser' = launches
                    /\ pc' = [pc EXCEPT ![t] = "render"]
                    /\ NoSettle
                    /\ LoopFrame
               ELSE /\ browser' = browser
                    /\ IF browser # 0
                       THEN /\ pc' = [pc EXCEPT ![t] = "render"]
                            /\ NoSettle
                            /\ LoopFrame
                       ELSE BucketLoop(t, << >>, 1, records, localRecords[t])
       ELSE /\ UNCHANGED << browser, browserLaunching >>
            /\ IF launchSucceeds(launches)
               THEN /\ pc' = [pc EXCEPT ![t] = "render"]
                    /\ NoSettle
               ELSE Reject(t)
            /\ LoopFrame
    /\ newContext(t)
    /\ UNCHANGED << buckets, launches, nRender, stdout >>
    /\ Frame

\* getBrowser's polling loop (Roku.js) sees browserLaunching reset and
\* returns whatever browser holds
PollWake(t) ==
    /\ Idle /\ pc[t] = "poll"
    /\ ~browserLaunching
    /\ IF browser # 0
       THEN /\ pc' = [pc EXCEPT ![t] = "render"]
            /\ NoSettle
            /\ LoopFrame
       ELSE BucketLoop(t, << >>, 1, records, localRecords[t])
    /\ newContext(t)
    /\ UNCHANGED << buckets, browser, browserLaunching, launches, nRender,
                    stdout >>
    /\ Frame

\* page.goto settles and fetchRendered returns what the page load found:
\* Roku.js logs a goto that threw and closes the context only when nothing
\* threw; the bucket loop starts
RenderReturn(t) ==
    /\ Idle /\ pc[t] = "render"
    /\ LET found == renderFound(urls[t])
           timeout == pageLoad(urls[t]).timeout
       IN  /\ buckets' = [buckets EXCEPT ![t] = found]
           /\ ctx' = [ctx EXCEPT ![t] = IF variant = "Roku"
                                         THEN contextAfter(timeout) ELSE @]
           /\ stdout' = stdout \cup (IF timeout THEN Say({"render error"}) ELSE {})
                                \cup BucketLines(found, 1)
           /\ BucketLoop(t, found, 1, records, localRecords[t])
    /\ UNCHANGED << browser, browserLaunching, launches, nRender >>
    /\ Frame

\* await putTest(b) returns; the record is pushed; the loop goes on
PutReturn(t) ==
    /\ Idle /\ pc[t] = "put"
    /\ LET b   == buckets[t][bi[t]]
           res == putTest(axiosPut(urls[t], b))
           rec == Record(t, b, res.success)
       IN  IF res.threw
           THEN /\ Reject(t)
                /\ LoopFrame
           ELSE IF RealtimeRecords
           THEN BucketLoop(t, buckets[t], bi[t] + 1, Append(records, rec),
                           localRecords[t])
           ELSE BucketLoop(t, buckets[t], bi[t] + 1, records,
                           Append(localRecords[t], rec))
    /\ stdout' = stdout \cup Say({"put"}) \cup BucketLines(buckets[t], bi[t] + 1)
    /\ UNCHANGED << buckets, browser, browserLaunching, launches, nRender, ctx >>
    /\ Frame

(***************************************************************************)
(* Roku.js: runWithRealtimeOutput and the top-level function               *)
(***************************************************************************)
PipeFrame ==
    UNCHANGED << buckets, bi, allBuckets, records, localRecords, urlResults >>

\* mutant of PoolFull: the test is off by one (size > CONCURRENCY)
PoolFullOffByOne(n) == n > CONCURRENCY

\* if (executing.size >= CONCURRENCY)
PoolFull(n) == n >= CONCURRENCY

\* one round of for (const url of urls): the worker is called, its promise
\* joins executing, and a full set makes the loop wait on Promise.race
Dispatch ==
    /\ variant = "Roku" /\ mainPc = "loop"
    /\ idx < Len(urls)
    /\ CallWorker(idx + 1)
    /\ executing' = executing \cup {idx + 1}
    /\ idx' = idx + 1
    /\ raceWon' = FALSE
    /\ mainPc' = IF PoolFull(Cardinality(executing')) THEN "race" ELSE "loop"
    /\ stdout' = stdout \cup Say({"heading"})
    /\ newContext(idx + 1)
    /\ PipeFrame
    /\ UNCHANGED << variant, LEVEL, argvX, PIPE_MODE, launchPlan, urls, browser,
                    i, spawned, wpc, wcur, closes, putIn, putOut,
                    nPut, files >>

\* the loop is over: await Promise.all(executing)
LoopEnd ==
    /\ variant = "Roku" /\ mainPc = "loop"
    /\ idx = Len(urls)
    /\ mainPc' = "all"
    /\ UNCHANGED << variant, LEVEL, argvX, PIPE_MODE, launchPlan, urls, pc,
                    buckets, bi, allBuckets, records, browser, browserLaunching,
                    launches, executing, idx, raceWon, i, spawned, wpc, wcur,
                    localRecords, urlResults, started, nFetch, nRender, closes,
                    putIn, putOut,
                    nPut, ctx, stdout, files >>

\* Promise.race(executing) has settled: the loop goes on
RaceResume ==
    /\ variant = "Roku" /\ mainPc = "race" /\ raceWon
    /\ mainPc' = "loop"
    /\ raceWon' = FALSE
    /\ UNCHANGED << variant, LEVEL, argvX, PIPE_MODE, launchPlan, urls, pc,
                    buckets, bi, allBuckets, records, browser, browserLaunching,
                    launches, executing, idx, i, spawned, wpc, wcur,
                    localRecords, urlResults, started, nFetch, nRender, closes,
                    putIn, putOut,
                    nPut, ctx, stdout, files >>

\* mutant of AfterClose: no process.exit in pipe mode
AfterCloseNoExit == "done"

\* after closeBrowser: pipe mode exits, otherwise the files are written
AfterClose == IF PIPE_MODE THEN "exit0" ELSE "done"

\* the export blocks if (argv.ob) ... if (argv.oj): the run names all four
\* files
ExportFiles == {"ob", "csv", "md", "oj"}

\* what follows closeBrowser(): process.exit(0), or the four files are
\* written and each write is reported
Finish ==
    /\ mainPc' = AfterClose
    /\ IF AfterClose = "exit0"
       THEN UNCHANGED << stdout, files >>
       ELSE /\ files' = ExportFiles
            /\ stdout' = stdout \cup {"export"}

\* Promise.all(executing) has settled; closeBrowser() closes the browser
\* if there is one
AllResume ==
    /\ variant = "Roku" /\ mainPc = "all" /\ executing = {}
    /\ IF browser # 0
       THEN /\ mainPc' = "closing" /\ closes' = closes + 1
            /\ UNCHANGED << stdout, files >>
       ELSE Finish /\ closes' = closes
    /\ UNCHANGED << variant, LEVEL, argvX, PIPE_MODE, launchPlan, urls, pc,
                    buckets, bi, allBuckets, records, browser, browserLaunching,
                    launches, executing, idx, raceWon, i, spawned, wpc, wcur,
                    localRecords, urlResults, started, nFetch, nRender,
                    putIn, putOut, nPut, ctx >>

\* await browser.close() returns: browser = null
CloseReturn ==
    /\ variant = "Roku" /\ mainPc = "closing"
    /\ browser' = 0
    /\ Finish
    /\ UNCHANGED << variant, LEVEL, argvX, PIPE_MODE, launchPlan, urls, pc,
                    buckets, bi, allBuckets, records, browserLaunching,
                    launches, executing, idx, raceWon, i, spawned, wpc, wcur,
                    localRecords, urlResults, started, nFetch, nRender, closes,
                    putIn, putOut, nPut, ctx >>

(***************************************************************************)
(* part_000: runPool and the top-level function                            *)
(***************************************************************************)
\* mutant of NextIndex: the index is read but not advanced (items[i])
NextIndexStuck(k) == k

\* i++
NextIndex(k) == k + 1

\* while (i < items.length) { const cur = items[i++]; await worker(cur); }
\* of pool worker w, from the loop test to the await or the loop's end
WorkerStep(w) ==
    IF i < Len(urls)
    THEN /\ i' = NextIndex(i)
         /\ wcur' = [wcur EXCEPT ![w] = i + 1]
         /\ wpc' = [wpc EXCEPT ![w] = "run"]
         /\ CallWorker(i + 1)
    ELSE /\ wpc' = [wpc EXCEPT ![w] = "done"]
         /\ UNCHANGED << i, wcur, pc, started, nFetch, nRender,
                         browserLaunching, launches >>

\* Array(CONCURRENCY).fill(0).map(async () => ...): the next pool worker is
\* created and runs to its first await; after the last, await Promise.all
SpawnWorker ==
    /\ variant = "Pool" /\ mainPc = "spawn"
    /\ WorkerStep(spawned)
    /\ spawned' = spawned + 1
    /\ mainPc' = IF spawned + 1 = CONCURRENCY THEN "await" ELSE "spawn"
    /\ PipeFrame
    /\ UNCHANGED << variant, LEVEL, argvX, PIPE_MODE, launchPlan, urls, browser,
                    executing, idx, raceWon, closes, putIn, putOut,
                    nPut, ctx, stdout, files >>

\* a pool worker's await worker(cur) has returned: round the loop again
WorkerLoop(w) ==
    /\ variant = "Pool" /\ mainPc # "crashed"
    /\ wpc[w] = "loop"
    /\ WorkerStep(w)
    /\ PipeFrame
    /\ UNCHANGED << variant, LEVEL, argvX, PIPE_MODE, launchPlan, urls, browser,
                    executing, idx, raceWon, spawned, mainPc, closes,
                    putIn, putOut,
                    nPut, ctx, stdout, files >>

RECURSIVE MergeFrom(_, _)
\* for (const target of urls) { const result = urlResults.get(target);
\*   if (result) result.records.forEach(r => records.push(r)) }  from url k on
MergeFrom(k, recs) ==
    IF k > Len(urls) THEN recs
    ELSE LET result == urlResults[urls[k]]
         IN  MergeFrom(k + 1, IF result.set THEN recs \o result.records ELSE recs)

\* Promise.all(pool) has resolved: runPool returns
PoolResume ==
    /\ variant = "Pool" /\ mainPc = "await"
    /\ \A w \in Workers : wpc[w] = "done"
    /\ mainPc' = "merge"
    /\ UNCHANGED << variant, LEVEL, argvX, PIPE_MODE, launchPlan, urls, pc,
                    buckets, bi, allBuckets, records, browser, browserLaunching,
                    launches, executing, idx, raceWon, i, spawned, wpc, wcur,
                    localRecords, urlResults, started, nFetch, nRender, closes,
                    putIn, putOut,
                    nPut, ctx, stdout, files >>

\* console.log of the merge loop: a heading for every url with a result,
\* then the result's logs
MergeLines ==
    UNION { {"heading"} \cup urlResults[urls[k]].logs :
               k \in { p \in Pos : urlResults[urls[p]].set } }

\* the results are printed and merged into records, the files are written
Merge ==
    /\ variant = "Pool" /\ mainPc = "merge"
    /\ records' = MergeFrom(1, records)
    /\ stdout' = stdout \cup MergeLines \cup {"export"}
    /\ files' = ExportFiles
    /\ mainPc' = "done"
    /\ UNCHANGED << variant, LEVEL, argvX, PIPE_MODE, launchPlan, urls, pc,
                    buckets, bi, allBuckets, browser, browserLaunching,
                    launches, executing, idx, raceWon, i, spawned, wpc, wcur,
                    localRecords, urlResults, started, nFetch, nRender, closes,
                    putIn, putOut, nPut, ctx >>

\* the top-level function has rejected and nothing handles the rejection:
\* Node 15 and later end the process, earlier versions only warn
ProcessExit ==
    /\ variant = "Pool" /\ mainPc = "rejected"
    /\ mainPc' = "crashed"
    /\ UNCHANGED << variant, LEVEL, argvX, PIPE_MODE, launchPlan, urls, pc,
                    buckets, bi, allBuckets, records, browser, browserLaunching,
                    launches, executing, idx, raceWon, i, spawned, wpc, wcur,
                    localRecords, urlResults, started, nFetch, nRender, closes,
                    putIn, putOut,
                    nPut, ctx, stdout, files >>

(***************************************************************************)
(* The program                                                             *)
(***************************************************************************)
Next ==
    \/ Dispatch
    \/ LoopEnd
    \/ RaceResume
    \/ AllResume
    \/ CloseReturn
    \/ SpawnWorker
    \/ \E w \in Workers : WorkerLoop(w)
    \/ PoolResume
    \/ Merge
    \/ ProcessExit
    \/ \E t \in Pos : FetchReturn(t)
    \/ \E t \in Pos : LaunchReturn(t)
    \/ \E t \in Pos : PollWake(t)
    \/ \E t \in Pos : RenderReturn(t)
    \/ \E t \in Pos : PutReturn(t)

Spec == Init /\ [][Next]_vars

(***************************************************************************)
(* Roku.js on its own, with progress: the event loop runs a queued         *)
(* continuation or delivers a pending I/O completion or timer whenever     *)
(* there is one                                                            *)
(***************************************************************************)
InitRoku == Init /\ variant = "Roku"

NextRoku ==
    \/ Dispatch
    \/ LoopEnd
    \/ RaceResume
    \/ AllResume
    \/ CloseReturn
    \/ \E t \in Pos : FetchReturn(t)
    \/ \E t \in Pos : LaunchReturn(t)
    \/ \E t \in Pos : PollWake(t)
    \/ \E t \in Pos : RenderReturn(t)
    \/ \E t \in Pos : PutReturn(t)

SpecRokuFair == InitRoku /\ [][NextRoku]_vars /\ WF_vars(NextRoku)

(***************************************************************************)
(* putTest on its own: one call for each thing axios.put can do            *)
(***************************************************************************)
\* every status code from StatusLo to StatusHi, and a transport failure
PutInputs ==
    { [kind |-> "resp", status |-> st] : st \in StatusLo .. StatusHi }
        \cup { [kind |-> "error", status |-> 0] }

InitPut ==
    /\ variant = "Roku"
    /\ urls = << "uA" >>
    /\ LEVEL = 2
    /\ argvX = TRUE
    /\ PIPE_MODE = FALSE
    /\ launchPlan = "ok"
    /\ InitState
    /\ putIn \in PutInputs
    /\ putOut = [called |-> FALSE, success |-> FALSE, threw |-> FALSE]

\* const putResult = await putTest(b)
PutProbe ==
    /\ ~putOut.called
    /\ putIn.kind # "none"
    /\ LET res == putTest(putIn)
       IN  putOut' = [called |-> TRUE, success |-> res.success, threw |-> res.threw]
    /\ UNCHANGED << variant, LEVEL, argvX, PIPE_MODE, launchPlan, urls, mainPc,
                    pc, buckets, bi, allBuckets, records, browser,
                    browserLaunching, launches, executing, idx, raceWon, i,
                    spawned, wpc, wcur, localRecords, urlResults, started,
                    nFetch, nRender, closes, putIn,
                    nPut, ctx, stdout, files >>

NextPut == PutProbe

SpecPut == InitPut /\ [][NextPut]_vars

(***************************************************************************)
(* Properties                                                              *)
(***************************************************************************)
\* the pipelines that have been started and have not finished
InFlight == { t \in Pos : pc[t] \notin {"pending", "done", "failed"} }

\* the run has come to its normal end (files written, or pipe mode's exit)
AtEnd == mainPc \in {"done", "exit0"}

\* the records of the list seq that the pipeline at position t produced
RecordsOf(seq, t) ==
    LET From(r) == r.pos = t
    IN  SelectSeq(seq, From)

\* C1: in both pools, the number of pipelines started and not yet finished
\* never exceeds CONCURRENCY
C1_ConcurrencyCap == Cardinality(InFlight) <= CONCURRENCY

\* C1 witness: the pool is full, and the url beyond the first CONCURRENCY
\* has been started after an earlier pipeline finished
C1_PoolFullAgain ==
    /\ Len(urls) > CONCURRENCY
    /\ pc[Len(urls)] \notin {"pending", "done", "failed"}
    /\ Cardinality(InFlight) = CONCURRENCY

\* C2: every position of the url list is handed to worker() at most once,
\* a position is pending exactly as long as it was never handed out, no two
\* pool workers hold the same position, and at the normal end of a run every
\* position was handed out exactly once and its pipeline is over
C2_ClaimedExactlyOnce ==
    /\ \A t \in Pos : started[t] <= 1 /\ (pc[t] = "pending" <=> started[t] = 0)
    /\ \A w1 \in { w \in Workers : wpc[w] = "run" } :
          \A w2 \in Workers : (w2 # w1 /\ wpc[w2] = "run") => wcur[w1] # wcur[w2]
    /\ AtEnd => \A t \in Pos : started[t] = 1 /\ pc[t] \in {"done", "failed"}

\* C2 witness: a run of more urls than workers has ended, in part_000
C2_LongRunEnded ==
    /\ variant = "Pool" /\ Len(urls) > CONCURRENCY /\ AtEnd
    /\ \A t \in Pos : started[t] = 1

\* C3 (as claimed): in part_000 an exception inside one target's worker
\* never takes the top-level function down: it neither rejects nor does the
\* process crash, so the run still gets to merging and export
C3_PoolSurvivesException ==
    variant = "Pool" => mainPc \notin {"rejected", "crashed"}

\* C4: in Roku.js a worker that rejects frees its slot and leaves no record
\* and no bucket behind, after a rejection the run cannot get stuck before
\* its end, and at the end every url was dispatched and every pipeline is over
C4_RejectionContained ==
    variant = "Roku" =>
        /\ \A t \in Pos : pc[t] = "failed" =>
              /\ t \notin executing
              /\ RecordsOf(records, t) = << >>
              /\ buckets[t] = << >>
        /\ allBuckets \subseteq
              UNION { Range(buckets[t]) : t \in { p \in Pos : pc[p] # "failed" } }
        /\ (\E t \in Pos : pc[t] = "failed") => (AtEnd \/ ENABLED Next)
        /\ AtEnd => \A t \in Pos : started[t] = 1 /\ pc[t] \in {"done", "failed"}

\* C4 witness: a run of Roku.js ended in which one worker rejected and
\* another one's records were kept
C4_EndedDespiteRejection ==
    /\ variant = "Roku" /\ mainPc = "done"
    /\ \E t \in Pos : pc[t] = "failed"
    /\ records # << >>

\* what fetchHTTP + extractBuckets give for the url at position t
FetchYield(t) == extractBuckets(fetchHTTP(urls[t]))

\* C5: level 1 never calls the renderer, level 3 never calls the fetcher,
\* and at level 2 the renderer has been called for a target exactly when
\* that target's fetch has returned and fetch + extract gave an empty list
C5_LevelInvariant ==
    \A t \in Pos :
        /\ nFetch[t] <= 1 /\ nRender[t] <= 1
        /\ LEVEL = 1 => nRender[t] = 0
        /\ LEVEL = 3 => nFetch[t] = 0
        /\ LEVEL = 2 =>
              (nRender[t] = 1 <=>
                  /\ pc[t] \notin {"pending", "fetch"}
                  /\ ~FetchYield(t).threw
                  /\ FetchYield(t).list = << >>)

\* C5 witness: at level 2 a pipeline fetched, fell back to the renderer and
\* finished, while another one found buckets statically and never rendered
C5_SmartFallbackTaken ==
    /\ LEVEL = 2
    /\ \E t \in Pos : nFetch[t] = 1 /\ nRender[t] = 1 /\ pc[t] = "done"
    /\ \E t \in Pos : nFetch[t] = 1 /\ nRender[t] = 0 /\ pc[t] = "done"

\* the buckets that finished pipelines discovered
DoneBuckets == UNION { Range(buckets[t]) : t \in { p \in Pos : pc[p] = "done" } }

\* C6 (as claimed): while a pipeline is in flight, none of its records is in
\* records and none of its buckets is in allBuckets (unless a finished
\* pipeline discovered that bucket too)
C6_NoPartialResults ==
    \A t \in InFlight :
        /\ RecordsOf(records, t) = << >>
        /\ (Range(buckets[t]) \cap allBuckets) \subseteq DoneBuckets

\* C6 (amended): with the PUT test off, allBuckets holds exactly the buckets
\* of finished pipelines; in part_000, or with the PUT test off, records
\* holds records of finished pipelines only
C6_PartialResultsOnlyWithPut ==
    /\ ~putOn => allBuckets = DoneBuckets
    /\ (variant = "Pool" \/ ~putOn) =>
          \A k \in 1 .. Len(records) : pc[records[k].pos] = "done"

\* C6 witness: part_000 with the PUT test on has probed a bucket of a
\* pipeline still in flight, and records is still empty
C6_LocalRecordHeldBack ==
    /\ variant = "Pool" /\ putOn
    /\ \E t \in InFlight : localRecords[t] # << >>
    /\ records = << >>

\* what fetchRendered(u) returns in a run where every launch ends the same
\* way: the page's buckets, or [] (Roku.js) / an exception (part_000) when
\* the browser does not launch
RenderAlone(u) ==
    IF launchPlan = "ok" THEN [threw |-> FALSE, list |-> renderFound(u)]
    ELSE [threw |-> variant = "Pool", list |-> << >>]

\* the bucket list worker(u) ends with when it runs with no other pipeline
\* beside it
WorkerAlone(u) ==
    IF LEVEL = 3 THEN RenderAlone(u)
    ELSE LET ex == extractBuckets(fetchHTTP(u))
         IN  IF ex.threw THEN ex
             ELSE IF LEVEL = 2 /\ ex.list = << >> THEN RenderAlone(u)
             ELSE ex

\* the records worker(urls[t]) makes when it runs alone, in order
RecordsAlone(t) ==
    LET list == WorkerAlone(urls[t]).list
    IN  [j \in 1 .. Len(list) |->
            [target |-> urls[t], bucket |-> list[j], pos |-> t,
             putBool |-> putOn /\ putTest(axiosPut(urls[t], list[j])).success]]

RECURSIVE SeqRecords(_)
\* the record list after the targets 1 .. n were run one after another
SeqRecords(n) == IF n = 0 THEN << >> ELSE SeqRecords(n - 1) \o RecordsAlone(n)

\* the bucket set after all targets were run one after another
SeqBuckets == UNION { Range(WorkerAlone(urls[t]).list) : t \in Pos }

\* a record list without the history field
Plain(seq) ==
    [k \in 1 .. Len(seq) |->
        [target |-> seq[k].target, bucket |-> seq[k].bucket,
         putBool |-> seq[k].putBool]]

C8_BucketSetIsUnion ==
    AtEnd => allBuckets = UNION { Range(buckets[t]) : t \in Pos }

\* C8 witness: a run ended in which two targets discovered different,
\* overlapping bucket lists
C8_TwoTargetsMerged ==
    /\ AtEnd /\ Len(urls) = 2
    /\ buckets[1] # << >> /\ buckets[2] # << >>
    /\ Range(buckets[1]) # Range(buckets[2])
    /\ Range(buckets[1]) \cap Range(buckets[2]) # {}

\* C9 (as claimed): Roku.js calls chromium.launch at most once in a run,
\* whatever the launch's outcome
C9_SingleLaunch == variant = "Roku" => launches <= 1

\* C10: putTest reports success exactly for a response whose status s has
\* 200 <= s < 300, reports failure for every other status and for a
\* transport failure, and never throws
C10_PutClassification ==
    putOut.called =>
        /\ ~putOut.threw
        /\ putOut.success <=>
              (putIn.kind = "resp" /\ putIn.status \in 200 .. 299)

\* C10 witness: a 201 was classified writable
C10_CreatedIsWritable ==
    putOut.called /\ putIn.kind = "resp" /\ putIn.status = 201 /\ putOut.success

\* the records the worker call at position t has made so far: Roku.js pushes
\* them to records, part_000 to its localRecords
Made(t) == IF variant = "Roku" THEN RecordsOf(records, t) ELSE localRecords[t]

\* C11: with the PUT test asked for (and no pipe mode) a worker has called
\* putTest once for each record it has made, plus once for the bucket it is
\* probing right now, and a finished worker has made one record for each
\* entry of its bucket list, so nothing is retried and nothing is skipped
\* because another target named the bucket; every record's flag is the
\* outcome of the probe of its own (target, bucket); without the PUT test no
\* probe is ever made and every flag is false
C11_OneProbePerRecord ==
    \A t \in Pos :
        /\ nPut[t] = IF argvX /\ ~PIPE_MODE
                     THEN Len(Made(t)) + (IF pc[t] = "put" THEN 1 ELSE 0)
                     ELSE 0
        /\ pc[t] = "done" => Len(Made(t)) = Len(buckets[t])
        /\ \A k \in 1 .. Len(Made(t)) :
              /\ Made(t)[k].bucket = buckets[t][k]
              /\ Made(t)[k].putBool =
                    (argvX /\ ~PIPE_MODE
                       /\ putTest(axiosPut(urls[t], buckets[t][k])).success)

\* C11 witness: two targets named the same bucket, each probed it, and the
\* two records carry different flags
C11_SameBucketProbedTwice ==
    /\ AtEnd /\ Len(urls) = 2 /\ urls[1] # urls[2]
    /\ nPut[1] >= 1 /\ nPut[2] >= 1
    /\ \E j \in 1 .. Len(records) : \E k \in 1 .. Len(records) :
          /\ records[j].pos = 1 /\ records[k].pos = 2
          /\ records[j].bucket = records[k].bucket
          /\ records[j].putBool # records[k].putBool

\* C12: in pipe mode of Roku.js putTest is never called, no export file is
\* written, console.log writes nothing but bare bucket urls, and the process
\* has exited (code 0) only with every url dispatched, every pipeline over
\* and the browser closed
C12_PipeMode ==
    (variant = "Roku" /\ PIPE_MODE) =>
        /\ \A t \in Pos : nPut[t] = 0
        /\ files = {}
        /\ stdout \subseteq {"url"}
        /\ mainPc # "done"
        /\ mainPc = "exit0" =>
              /\ idx = Len(urls)
              /\ \A t \in Pos : pc[t] \in {"done", "failed"}
              /\ browser = 0 /\ ~browserLaunching

\* C12 witness: a pipe-mode run with -X PUT has printed a bucket url, used
\* the browser, closed it and exited
C12_PipeRunExited ==
    /\ variant = "Roku" /\ PIPE_MODE /\ argvX
    /\ mainPc = "exit0" /\ closes = 1
    /\ stdout = {"url"}

\* the fetchRendered call of position t has returned
RenderOver(t) == nRender[t] = 1 /\ pc[t] \in {"put", "done", "failed"}

\* C13 (as claimed): in Roku.js a fetchRendered call that has returned has
\* left no browsing context open, whether its navigation completed or timed
\* out, and while the run has not ended the shared browser a context was
\* opened on is still there
C13_ContextClosedOnEveryPath ==
    variant = "Roku" =>
        /\ \A t \in Pos : RenderOver(t) => ctx[t] # "open"
        /\ ((\E t \in Pos : ctx[t] # "none") /\ ~AtEnd) => browser # 0

\* the fetchRendered call of position t got a page and has returned
Rendered(t) ==
    /\ RenderOver(t) /\ pc[t] # "failed"
    /\ variant = "Roku" => ctx[t] # "none"

\* C14 (as claimed): in both programs a fetchRendered call that got a page
\* returns the union of the matching request urls and the matches of the
\* document body, also when the navigation timed out
C14_BodyAlwaysExtracted ==
    \A t \in Pos :
        Rendered(t) =>
            Range(buckets[t]) = Range(pageLoad(urls[t]).requests)
                                   \cup Range(pageLoad(urls[t]).body)

\* a chromium.launch of this run has succeeded or, if still pending, will
Launched == \E n \in 1 .. launches : launchSucceeds(n)

\* no pipeline is in flight or yet to start
AllOver == idx = Len(urls) /\ \A t \in Pos : pc[t] \in {"done", "failed"}

\* the state part of C15
C15_ClosePart ==
    variant = "Roku" =>
        /\ closes <= 1
        /\ (closes = 1 \/ mainPc = "closing") => AllOver
        /\ (browser = 0 /\ ~AtEnd) => closes = 0
        /\ AtEnd => (browser = 0 /\ closes = IF Launched THEN 1 ELSE 0)

\* the step part of C15
C15_HandlePart ==
    (variant = "Roku" /\ browser # 0 /\ browser' # browser) =>
        (browser' = 0 /\ mainPc = "closing" /\ AllOver)

\* C15: in Roku.js browser.close() is called at most once, only when every
\* url was dispatched and every pipeline is over, and exactly once by the end
\* of a run in which a launch succeeded; once browser holds a handle, the
\* only step that changes it is closeBrowser's reset to null
C15_ClosedOnceNeverReassigned == [] C15_ClosePart /\ [][C15_HandlePart]_vars

\* C15 witness: a run of two rendering pipelines that shared one browser has
\* ended with the browser closed once
C15_SharedBrowserClosed ==
    /\ variant = "Roku" /\ AtEnd /\ Len(urls) = 2
    /\ ctx[1] # "none" /\ ctx[2] # "none"
    /\ launches = 1 /\ closes = 1 /\ browser = 0

C17_OneRecordPerPair ==
    AtEnd =>
        \A j \in 1 .. Len(records) : \A k \in 1 .. Len(records) :
            (records[j].target = records[k].target
                /\ records[j].bucket = records[k].bucket) => j = k

\* the place of a record's bucket in the bucket list of the worker call
\* that made the record
Place(r) == CHOOSE n \in 1 .. Len(buckets[r.pos]) : buckets[r.pos][n] = r.bucket

\* C18 (as claimed): in every state, of two records of the same target the
\* later one in the global record list is not earlier in the target's
\* bucket list
C18_TargetOrderKept ==
    \A j \in 1 .. Len(records) : \A k \in 1 .. Len(records) :
        (j < k /\ records[j].target = records[k].target) =>
            Place(records[j]) <= Place(records[k])

\* the state part of C19
C19_RecordedPart == \A k \in 1 .. Len(records) : records[k].bucket \in allBuckets

\* the step part of C19
C19_GrowPart == allBuckets \subseteq allBuckets'

\* C19: the bucket of every record of the global record list is in
\* allBuckets, and no step takes a bucket out of allBuckets
C19_RecordedBucketsKept == [] C19_RecordedPart /\ [][C19_GrowPart]_vars

\* C19 witness: a worker has added a bucket to allBuckets and is still
\* probing it, so the bucket is in the set before its record exists, while
\* an earlier record is already in the list
C19_BucketBeforeRecord ==
    /\ records # << >>
    /\ \E t \in Pos :
          /\ pc[t] = "put"
          /\ buckets[t][bi[t]] \in allBuckets
          /\ \A k \in 1 .. Len(records) : records[k].bucket # buckets[t][bi[t]]

\* C20: when every pending fetch, launch, navigation, PUT and timer is
\* eventually delivered, every run of Roku.js comes to its end: every url
\* was dispatched, every pipeline is over (no caller is left polling in
\* getBrowser, no Promise.race or Promise.all is left pending) and
\* closeBrowser has run
C20_RokuTerminates == <>(AtEnd /\ AllOver /\ browser = 0)

\* C20 witness: a launch has failed while another caller was polling in
\* getBrowser, and that caller has not yet seen the flag reset
C20_PollerAfterFailedLaunch ==
    /\ variant = "Roku" /\ launches = 1 /\ ~launchSucceeds(1)
    /\ ~browserLaunching /\ browser = 0
    /\ \E t \in Pos : pc[t] = "poll"
    /\ \E t \in Pos : pc[t] = "done" /\ nRender[t] = 1

====
